---- MODULE Spec2Model ----
(***************************************************************************)
(* GuardianEye frontend: the graph adapters (adaptGraphToNodes, initGraph), *)
(* the canvas hit test, and the animation loops of the two network views    *)
(* (pages/NetworkPage.tsx and components/NetworkGraph.jsx) under React 19   *)
(* batching: a state update issued outside a render is queued and applied   *)
(* by a later render.                                                       *)
(*                                                                          *)
(* Node positions are abstracted in the loop model to a layout version      *)
(* (ticks): one simulation tick turns layout version v into v + 1 modulo    *)
(* LayoutVersions.                                                          *)
(***************************************************************************)
EXTENDS Integers, Sequences, FiniteSets, TLC

VARIABLES
    payload,       \* the backend graph payload handed to the adapters
    adaptOut,      \* outcome of adaptGraphToNodes(payload)
    host,          \* which view is mounted: "page" (NetworkPage) or "graph" (NetworkGraph)
    stage,         \* "init" (rendered, effects not yet run), "live", "unmounted"
    nodes,         \* NetworkPage: React state `nodes`
    nodesRef,      \* nodesRef.current (both views)
    edgesRef,      \* NetworkGraph: edgesRef.current
    queue,         \* NetworkPage: updates queued by setNodes, not yet rendered
    totalReports,  \* NetworkPage: React state `totalReports`
    selectedNode,  \* NetworkPage: React state `selectedNode` (node id, or NoNode)
    data,          \* NetworkGraph: React state `data` (snapshot number, 0 = null)
    loading,       \* NetworkGraph: React state `loading`
    canvas,        \* canvasRef.current is set (the canvas element is rendered)
    loop,          \* the animation effect instance: [gen, animId, active]
    pending,       \* frame callbacks requested and not yet run or cancelled
    cancelled,     \* loop generations whose effect cleanup has run
    lastFrame,     \* the most recent frame: [flip, gen, painted]
    inflight,      \* network requests awaiting their response
    issued,        \* number of network requests issued so far
    arrivals,      \* number of payloads received so far
    answered,      \* the requests whose payloads were received, in order of arrival
    pointer,       \* the pointer position of the canvas click that set the selection (<<>> = none)
    entry,         \* one node entry of a payload: [type, label]
    shown,         \* what the adapter and the two renderers made of `entry`
    seedRuns,      \* the seed layouts of successive adaptations of one payload
    sim,           \* a graph under simulation: [engine, nodes, edges, ticks, ...]
    analysis,      \* AnalysisPage: the scan status subscription and its view state
    verdictView    \* VerdictPage: the verdict polling effect and its view state

adapterVars == <<payload, adaptOut>>
viewVars    == <<host, stage, nodes, nodesRef, edgesRef, queue, totalReports,
                 data, loading, canvas, loop, pending, cancelled,
                 lastFrame, inflight, issued, arrivals, answered>>
hitVars     == <<pointer, selectedNode>>
entryVars   == <<entry, shown>>
simVars     == <<seedRuns, sim>>
flowVars    == <<analysis, verdictView>>
vars        == <<adapterVars, viewVars, hitVars, entryVars, simVars, flowVars>>

----------------------------------------------------------------------------
(* Bounds of the model *)

MaxNodes == 2          \* longest `nodes` list of an adapter payload
MaxEdges == 2          \* longest `edges` list of an adapter payload
LayoutVersions == 3    \* layout versions told apart (ticks count modulo this)
MaxQueue == 2          \* frames that may run before React renders the queued updates
MaxRequests == 2       \* network requests one view issues
MaxHitNodes == 2       \* longest node list of the hit-test model

----------------------------------------------------------------------------
(* Payloads *)

\* Names every object literal {} inherits from Object.prototype: a lookup
\* edgeMap[k] with such a k returns an inherited, truthy non-array value.
ProtoKeys == {"constructor"}

NodeIds == {"a", "b", "constructor"}
EdgeIds == {"a", "b", "x"}
SimIds  == {"a", "b", "c"}
AllIds  == NodeIds \cup EdgeIds \cup SimIds

Undefined == -1        \* an absent numeric field

SeqsUpTo(S, n) == UNION {[1..k -> S] : k \in 0..n}

RawNodes == [id : NodeIds]
RawEdges == [from : EdgeIds, to : EdgeIds]

\* BackendGraphData; nodesPresent / edgesPresent say whether the field exists.
Payloads ==
    {p \in [nodesPresent : BOOLEAN, nodes : SeqsUpTo(RawNodes, MaxNodes),
            edgesPresent : BOOLEAN, edges : SeqsUpTo(RawEdges, MaxEdges),
            total_reports : {Undefined, 5}] :
        /\ (~p.nodesPresent => p.nodes = <<>>)
        /\ (~p.edgesPresent => p.edges = <<>>)}

\* `field || []`
OrEmpty(present, s) == IF present THEN s ELSE <<>>

\* `n || 0`
OrZero(n) == IF n = Undefined THEN 0 ELSE n

Ids(list) == {list[i].id : i \in 1..Len(list)}

----------------------------------------------------------------------------
(* adaptGraphToNodes *)

EmptyEdgeMap == [k \in AllIds |-> <<>>]

PushOneWay(m, e) == [m EXCEPT ![e.from] = Append(@, e.to)]

\* edgeMap[edge.from].push(edge.to); edgeMap[edge.to].push(edge.from)
PushBoth(m, e) ==
    LET m1 == [m EXCEPT ![e.from] = Append(@, e.to)]
    IN  [m1 EXCEPT ![e.to] = Append(@, e.from)]

\* One iteration of the edge loop. With an endpoint in ProtoKeys the guard
\* `!edgeMap[k]` is false, no own list is created, and .push is not a function.
EdgeStep(acc, e) ==
    IF acc.threw \/ e.from \in ProtoKeys \/ e.to \in ProtoKeys
    THEN [acc EXCEPT !.threw = TRUE]
    ELSE [acc EXCEPT !.map = PushBoth(acc.map, e)]

RECURSIVE BuildEdgeMap(_, _)
BuildEdgeMap(edges, k) ==
    IF k = 0 THEN [threw |-> FALSE, map |-> EmptyEdgeMap]
    ELSE EdgeStep(BuildEdgeMap(edges, k - 1), edges[k])

KeepAll(s) == s

\* [...new Set(s)]: first occurrences, in insertion order
RECURSIVE UniqueInOrder(_)
UniqueInOrder(s) ==
    IF s = <<>> THEN <<>>
    ELSE LET front == SubSeq(s, 1, Len(s) - 1)
             last  == s[Len(s)]
             u     == UniqueInOrder(front)
         IN  IF \E i \in 1..Len(front) : front[i] = last THEN u ELSE Append(u, last)

\* The node loop: edgeMap[n.id] || [] is the inherited value for an id in
\* ProtoKeys, and new Set(<a function>) throws.
AdaptGraphToNodes(p) ==
    LET em == BuildEdgeMap(OrEmpty(p.edgesPresent, p.edges),
                           Len(OrEmpty(p.edgesPresent, p.edges)))
        ns == OrEmpty(p.nodesPresent, p.nodes)
    IN  IF em.threw \/ \E i \in 1..Len(ns) : ns[i].id \in ProtoKeys
        THEN [threw |-> TRUE, nodes |-> <<>>]
        ELSE [threw |-> FALSE,
              nodes |-> [i \in 1..Len(ns) |->
                           [id |-> ns[i].id,
                            connections |-> UniqueInOrder(em.map[ns[i].id])]]]

----------------------------------------------------------------------------
(* initGraph (NetworkGraph.jsx) *)

InitGraphNodes(p) ==
    LET ns == OrEmpty(p.nodesPresent, p.nodes)
    IN  [i \in 1..Len(ns) |-> [id |-> ns[i].id]]

InitGraphEdges(p) == OrEmpty(p.edgesPresent, p.edges)

----------------------------------------------------------------------------
(* The two views: graph snapshots, ticks, queued state updates *)

\* A node list with its identity: snap numbers the payload it came from in
\* order of arrival (0 = the initial list), ticks is its layout version.
Graph(snap, list) == [snap |-> snap, ticks |-> 0, list |-> list]

\* mockNetworkNodes (ids and connections)
MockNetworkNodes ==
    << [id |-> "n1",  connections |-> <<"n2", "n3", "n7">>],
       [id |-> "n2",  connections |-> <<"n1", "n4", "n5">>],
       [id |-> "n3",  connections |-> <<"n1", "n6">>],
       [id |-> "n4",  connections |-> <<"n2", "n5">>],
       [id |-> "n5",  connections |-> <<"n2", "n4", "n8">>],
       [id |-> "n6",  connections |-> <<"n3", "n9">>],
       [id |-> "n7",  connections |-> <<"n1", "n10", "n11">>],
       [id |-> "n8",  connections |-> <<"n5", "n12">>],
       [id |-> "n9",  connections |-> <<"n6", "n13">>],
       [id |-> "n10", connections |-> <<"n7", "n11">>],
       [id |-> "n11", connections |-> <<"n7", "n10", "n14">>],
       [id |-> "n12", connections |-> <<"n8">>],
       [id |-> "n13", connections |-> <<"n9">>],
       [id |-> "n14", connections |-> <<"n11">>] >>

MockGraph  == Graph(0, MockNetworkNodes)
EmptyGraph == Graph(0, <<>>)

\* NetworkPage's tick (the updater passed to setNodes): a new list with every
\* node moved; an empty list maps to an empty list.
SimulatePage(g) ==
    IF g.list = <<>> THEN g
    ELSE [g EXCEPT !.ticks = (@ + 1) % LayoutVersions]

\* NetworkGraph's tick: moves the nodes of nodesRef.current in place, and
\* returns at once when there are none.
SimulateGraph(g) ==
    IF g.list = <<>> THEN g
    ELSE [g EXCEPT !.ticks = (@ + 1) % LayoutVersions]

\* A queued state update: "fn" is the tick updater, "nodes" carries the adapted
\* list and the total (setNodes + setTotalReports), "data" is setData(d),
\* "loading" is setLoading(false).
Update(kind, g, total) == [kind |-> kind, g |-> g, total |-> total]

TickValueUpdate(ref) == Update("nodes", SimulatePage(ref), Undefined)

\* setNodes((prev) => ...): the tick is queued as a function of the state it
\* will be applied to, not of the list current when it is issued.
TickUpdate(ref) == Update("fn", EmptyGraph, Undefined)

\* React applies the queued updates of `nodes` in the order they were issued.
RECURSIVE ApplyAll(_, _)
ApplyAll(g, q) ==
    IF q = <<>> THEN g
    ELSE LET u == Head(q)
         IN  ApplyAll(CASE u.kind = "fn" -> SimulatePage(g)
                        [] u.kind = "nodes" -> u.g
                        [] OTHER -> g,
                      Tail(q))

\* The value of the last update of `kind` in the queue, or `old` when none.
RECURSIVE LastOf(_, _, _)
LastOf(q, kind, old) ==
    IF q = <<>> THEN old
    ELSE LastOf(Tail(q), kind, IF Head(q).kind = kind THEN Head(q) ELSE old)

----------------------------------------------------------------------------
(* requestAnimationFrame / cancelAnimationFrame *)

FrameIds(pend) == {f.id : f \in pend}

\* The id requestAnimationFrame returns: one no pending callback has and that
\* differs from the id the loop holds.
FreshId(pend, held) ==
    CHOOSE i \in 1..(Cardinality(pend) + 2) :
        /\ i \notin FrameIds(pend) \cup {held}
        /\ \A j \in 1..(i - 1) : j \in FrameIds(pend) \cup {held}

CancelNothing(pend, id) == pend

CancelAnimationFrame(pend, id) == {f \in pend : f.id # id}

KeepFirstAnimId(old, fresh) == IF old = 0 THEN fresh ELSE old

\* animId = requestAnimationFrame(...)
AssignAnimId(old, fresh) == fresh

\* The effect instance `base` after the closure of generation g requested
\* frame `fresh` (each effect instance has its own animId variable).
LoopAfterRequest(base, g, fresh) ==
    IF g = base.gen
    THEN [base EXCEPT !.animId = AssignAnimId(base.animId, fresh)]
    ELSE base

NewLoop == [gen |-> loop.gen + 1, animId |-> 0, active |-> TRUE]

----------------------------------------------------------------------------
(* Payloads the views receive in the loop model *)

\* {nodes: [a, b], edges: [a -> b], total_reports: 5}
ScenarioPayload ==
    [nodesPresent |-> TRUE, nodes |-> << [id |-> "a"], [id |-> "b"] >>,
     edgesPresent |-> TRUE, edges |-> << [from |-> "a", to |-> "b"] >>,
     total_reports |-> 5]

\* {nodes: [], edges: []}
NoNodesPayload ==
    [nodesPresent |-> TRUE, nodes |-> <<>>,
     edgesPresent |-> TRUE, edges |-> <<>>,
     total_reports |-> Undefined]

LoopPayloads == {ScenarioPayload, NoNodesPayload}

----------------------------------------------------------------------------
(* One frame of each animation loop *)

\* NetworkPage `simulate`: setNodes(updater); draw(); animId = rAF(simulate).
\* draw() paints nodesRef.current, which only a render assigns.
PageSimulate(rest, base, g) ==
    LET fresh == FreshId(rest, base.animId)
    IN  /\ queue' = Append(queue, TickUpdate(nodesRef))
        /\ lastFrame' = [flip |-> 1 - lastFrame.flip, gen |-> g,
                         painted |-> IF canvas THEN nodesRef ELSE lastFrame.painted]
        /\ pending' = rest \cup {[id |-> fresh, gen |-> g]}
        /\ loop' = LoopAfterRequest(base, g, fresh)

GraphDrawReturnsWhenEmpty(rest, base, g) ==
    LET fresh == FreshId(rest, base.animId)
    IN  IF nodesRef.list = <<>>
        THEN /\ nodesRef' = nodesRef
             /\ lastFrame' = [flip |-> 1 - lastFrame.flip, gen |-> g,
                              painted |-> lastFrame.painted]
             /\ pending' = rest
             /\ loop' = base
        ELSE /\ nodesRef' = SimulateGraph(nodesRef)
             /\ lastFrame' = [flip |-> 1 - lastFrame.flip, gen |-> g,
                              painted |-> nodesRef']
             /\ pending' = rest \cup {[id |-> fresh, gen |-> g]}
             /\ loop' = LoopAfterRequest(base, g, fresh)

\* NetworkGraph `draw`: simulate() moves nodesRef.current in place, then the
\* canvas is painted from nodesRef.current; animId = rAF(draw).
GraphDraw(rest, base, g) ==
    LET fresh == FreshId(rest, base.animId)
    IN  /\ nodesRef' = SimulateGraph(nodesRef)
        /\ lastFrame' = [flip |-> 1 - lastFrame.flip, gen |-> g,
                         painted |-> nodesRef']
        /\ pending' = rest \cup {[id |-> fresh, gen |-> g]}
        /\ loop' = LoopAfterRequest(base, g, fresh)

----------------------------------------------------------------------------
(* Actions of the views *)

\* The effects of the first render. NetworkPage: the fetch effect (only with
\* an entity parameter), then the loop effect, which calls simulate() at once.
\* NetworkGraph: the fetch effect; the loop effect finds no canvas (the view
\* shows "Loading...") and returns.
MountEffects ==
    /\ stage = "init"
    /\ stage' = "live"
    /\ \/ /\ host = "page"
          /\ \E hasEntity \in BOOLEAN :
                /\ inflight' = IF hasEntity THEN {1} ELSE {}
                /\ issued' = IF hasEntity THEN 1 ELSE 0
          /\ PageSimulate(pending, NewLoop, loop.gen + 1)
          /\ UNCHANGED nodesRef
       \/ /\ host = "graph"
          /\ inflight' = {1}
          /\ issued' = 1
          /\ UNCHANGED <<nodesRef, queue, lastFrame, pending, loop>>
    /\ UNCHANGED <<host, nodes, edgesRef, totalReports, data, loading, canvas,
                   cancelled, arrivals, answered, adapterVars, hitVars, entryVars,
                   simVars, flowVars>>

\* A pending frame callback runs.
RunFrame ==
    \E f \in pending :
        /\ \/ /\ host = "page"
              /\ Len(queue) < MaxQueue
              /\ PageSimulate(pending \ {f}, loop, f.gen)
              /\ UNCHANGED nodesRef
           \/ /\ host = "graph"
              /\ GraphDraw(pending \ {f}, loop, f.gen)
              /\ UNCHANGED queue
        /\ UNCHANGED <<host, stage, nodes, edgesRef, totalReports, data, loading,
                       canvas, cancelled, inflight, issued, arrivals, answered,
                       adapterVars, hitVars, entryVars, simVars, flowVars>>

HasNodesField(p) == p.nodesPresent

\* graph.nodes && graph.nodes.length > 0
HasNodes(p) == p.nodesPresent /\ Len(p.nodes) > 0

\* The response of request r: it failed (ok = FALSE) or carries payload p.
\* NetworkPage: getEntityNetwork yields {nodes: [], edges: []} on failure; a
\* payload with nodes is adapted and queued with its total. NetworkGraph:
\* setData(d); initGraph(d) on success, setLoading(false) in every case.
Receive(r, ok, p) ==
    /\ r \in inflight
    /\ inflight' = inflight \ {r}
    /\ \/ /\ host = "page"
          /\ LET adapted == AdaptGraphToNodes(p)
             IN  IF ok /\ stage = "live" /\ HasNodes(p)
                    /\ ~adapted.threw
                 THEN /\ queue' = Append(queue,
                                    Update("nodes", Graph(arrivals + 1, adapted.nodes),
                                           OrZero(p.total_reports)))
                      /\ arrivals' = arrivals + 1
                      /\ answered' = Append(answered, r)
                 ELSE UNCHANGED <<queue, arrivals, answered>>
          /\ UNCHANGED <<nodesRef, edgesRef>>
       \/ /\ host = "graph"
          /\ IF ok
             THEN /\ nodesRef' = Graph(arrivals + 1, InitGraphNodes(p))
                  /\ edgesRef' = [snap |-> arrivals + 1, list |-> InitGraphEdges(p)]
                  /\ arrivals' = arrivals + 1
                  /\ answered' = Append(answered, r)
                  /\ queue' = IF stage = "live"
                              THEN queue \o << Update("data", Graph(arrivals + 1, <<>>), Undefined),
                                               Update("loading", EmptyGraph, Undefined) >>
                              ELSE queue
             ELSE /\ queue' = IF stage = "live"
                              THEN Append(queue, Update("loading", EmptyGraph, Undefined))
                              ELSE queue
                  /\ UNCHANGED <<nodesRef, edgesRef, arrivals, answered>>
    /\ UNCHANGED <<host, stage, nodes, totalReports, data, loading, canvas, loop,
                   pending, cancelled, lastFrame, issued, adapterVars, hitVars, entryVars, simVars, flowVars>>

FetchResolve == \E r \in inflight, ok \in BOOLEAN, p \in LoopPayloads : Receive(r, ok, p)

\* React renders the view with the queued updates applied. NetworkPage: line
\* 34 assigns nodesRef.current = nodes. NetworkGraph: the canvas is rendered
\* once loading is false, and a changed `data` re-runs the loop effect:
\* the cleanup of the previous instance, then a new instance if there is a
\* canvas, which calls draw() at once.
ReactRender ==
    /\ stage = "live"
    /\ queue # <<>>
    /\ queue' = <<>>
    /\ \/ /\ host = "page"
          /\ nodes' = ApplyAll(nodes, queue)
          /\ nodesRef' = nodes'
          /\ totalReports' = LastOf(queue, "nodes", Update("nodes", nodes, totalReports)).total
          /\ UNCHANGED <<data, loading, canvas, loop, pending, cancelled, lastFrame>>
       \/ /\ host = "graph"
          /\ data' = LastOf(queue, "data", Update("data", Graph(data, <<>>), Undefined)).g.snap
          /\ loading' = (loading /\ \A i \in 1..Len(queue) : queue[i].kind # "loading")
          /\ canvas' = ~loading'
          /\ IF data' # data
             THEN LET kept == IF loop.active
                              THEN CancelAnimationFrame(pending, loop.animId)
                              ELSE pending
                  IN  /\ cancelled' = IF loop.active THEN cancelled \cup {loop.gen}
                                      ELSE cancelled
                      /\ IF canvas'
                         THEN GraphDraw(kept, NewLoop, loop.gen + 1)
                         ELSE /\ loop' = [loop EXCEPT !.active = FALSE]
                              /\ pending' = kept
                              /\ UNCHANGED <<nodesRef, lastFrame>>
             ELSE UNCHANGED <<nodesRef, loop, pending, cancelled, lastFrame>>
          /\ UNCHANGED <<nodes, totalReports>>
    /\ UNCHANGED <<host, stage, edgesRef, inflight, issued, arrivals, answered,
                   adapterVars, hitVars, entryVars, simVars, flowVars>>

\* The entity (route or search parameter) changes: the fetch effect runs again.
ChangeEntity ==
    /\ stage = "live"
    /\ issued < MaxRequests
    /\ issued' = issued + 1
    /\ inflight' = inflight \cup {issued + 1}
    /\ UNCHANGED <<host, stage, nodes, nodesRef, edgesRef, queue, totalReports,
                   data, loading, canvas, loop, pending, cancelled, lastFrame,
                   arrivals, answered, adapterVars, hitVars, entryVars, simVars, flowVars>>

\* The view is torn down: the loop effect's cleanup runs
\* (cancelAnimationFrame(animId)) and queued updates are dropped.
Unmount ==
    /\ stage = "live"
    /\ stage' = "unmounted"
    /\ canvas' = FALSE
    /\ queue' = <<>>
    /\ IF loop.active
       THEN /\ pending' = CancelAnimationFrame(pending, loop.animId)
            /\ cancelled' = cancelled \cup {loop.gen}
            /\ loop' = [loop EXCEPT !.active = FALSE]
       ELSE UNCHANGED <<pending, cancelled, loop>>
    /\ UNCHANGED <<host, nodes, nodesRef, edgesRef, totalReports, data, loading,
                   lastFrame, inflight, issued, arrivals, answered, adapterVars, hitVars,
                   entryVars, simVars, flowVars>>

----------------------------------------------------------------------------
(* The parts a specification leaves alone *)

NoEntry  == [type |-> "", label |-> <<>>]
NotShown == [adapted |-> FALSE, type |-> "", label |-> <<>>,
             pageDrawn |-> FALSE, pageText |-> <<>>,
             graphDrawn |-> FALSE, graphText |-> <<>>]

NoSim == [engine |-> "none", ticks |-> 0, nodes |-> <<>>, edges |-> <<>>,
          before |-> <<>>, repelled |-> <<>>, attracted |-> <<>>]

\* AnalysisPage and VerdictPage not rendered
NoAnalysis == [sse |-> "none", mounted |-> FALSE, currentStep |-> 0,
               completedSteps |-> {}, findings |-> {}, delivered |-> 0,
               ended |-> "no", scheduled |-> 0, timers |-> <<>>, navigations |-> 0]
NoVerdictView == [mounted |-> FALSE, id |-> "", effects |-> <<>>,
                  loading |-> TRUE, scan |-> <<>>, carried |-> {}]

EntryIdle == entry = NoEntry /\ shown = NotShown
SimIdle   == seedRuns = <<>> /\ sim = NoSim
FlowIdle  == analysis = NoAnalysis /\ verdictView = NoVerdictView

----------------------------------------------------------------------------
(* The views' specification *)

ViewInit ==
    /\ host \in {"page", "graph"}
    /\ stage = "init"
    /\ nodes = IF host = "page" THEN MockGraph ELSE EmptyGraph
    /\ nodesRef = nodes
    /\ edgesRef = [snap |-> 0, list |-> <<>>]
    /\ queue = <<>>
    /\ totalReports = 0
    /\ data = 0
    /\ loading = (host = "graph")
    /\ canvas = (host = "page")
    /\ loop = [gen |-> 0, animId |-> 0, active |-> FALSE]
    /\ pending = {}
    /\ cancelled = {}
    /\ lastFrame = [flip |-> 0, gen |-> 0, painted |-> EmptyGraph]
    /\ inflight = {}
    /\ issued = 0
    /\ arrivals = 0
    /\ answered = <<>>

Init ==
    /\ ViewInit
    /\ payload = NoNodesPayload
    /\ adaptOut = [state |-> "none", nodes |-> <<>>]
    /\ pointer = <<>>
    /\ selectedNode = <<>>
    /\ EntryIdle
    /\ SimIdle
    /\ FlowIdle

Next ==
    \/ MountEffects
    \/ RunFrame
    \/ FetchResolve
    \/ ReactRender
    \/ ChangeEntity
    \/ Unmount

Spec == Init /\ [][Next]_vars

----------------------------------------------------------------------------
(* The adapters applied to every payload *)

\* adaptGraphToNodes(payload), called directly.
CallAdapt ==
    /\ adaptOut.state = "none"
    /\ adaptOut' = LET r == AdaptGraphToNodes(payload)
                   IN  [state |-> IF r.threw THEN "threw" ELSE "returned",
                        nodes |-> r.nodes]
    /\ UNCHANGED <<payload, viewVars, hitVars, entryVars, simVars, flowVars>>

\* The view's request is answered with the payload.
ReceivePayload == \E r \in inflight : Receive(r, TRUE, payload)

AdaptInit ==
    /\ ViewInit
    /\ payload \in Payloads
    /\ adaptOut = [state |-> "none", nodes |-> <<>>]
    /\ pointer = <<>>
    /\ selectedNode = <<>>
    /\ EntryIdle
    /\ SimIdle
    /\ FlowIdle

AdaptNext ==
    \/ CallAdapt
    \/ MountEffects
    \/ ReceivePayload
    \/ ReactRender

SpecAdapt == AdaptInit /\ [][AdaptNext]_vars

----------------------------------------------------------------------------
(* handleCanvasClick (NetworkPage) *)

PickRadius == 16

WithinPickInclusive(dx, dy) == dx * dx + dy * dy <= PickRadius * PickRadius

\* Math.sqrt(dx * dx + dy * dy) < 16
WithinPick(dx, dy) == dx * dx + dy * dy < PickRadius * PickRadius

\* nodesRef.current.find(...): the first node the predicate accepts, <<>> for
\* undefined.
RECURSIVE FindNode(_, _, _, _)
FindNode(list, i, px, py) ==
    IF i > Len(list) THEN <<>>
    ELSE IF WithinPick(list[i].x - px, list[i].y - py) THEN <<list[i]>>
    ELSE FindNode(list, i + 1, px, py)

KeepOnMiss(old, clicked) == IF clicked = <<>> THEN old ELSE clicked

\* setSelectedNode(clicked || null)
Select(old, clicked) == clicked

\* <Sheet open={!!selectedNode}>
SheetOpen == selectedNode # <<>>

\* handleCanvasClick, with the pointer in canvas coordinates.
Click(px, py) ==
    /\ host = "page"
    /\ stage = "live"
    /\ canvas
    /\ pointer' = <<px, py>>
    /\ selectedNode' = Select(selectedNode, FindNode(nodesRef.list, 1, px, py))
    /\ UNCHANGED <<adapterVars, viewVars, entryVars, simVars, flowVars>>

\* Node and pointer coordinates of the hit-test model: distances of 0, of
\* exactly 16, just below 16 (12, 10) and just above (12, 11).
HitXs == {0, 12, 16}
HitYs == {0, 10, 11}
PointerXs == {0, 16}
PointerYs == {0, 10}

HitIds == <<"a", "b", "c">>

HitLists ==
    UNION {{[i \in 1..k |-> [id |-> HitIds[i], connections |-> <<>>,
                             x |-> xs[i], y |-> ys[i]]] :
                xs \in [1..k -> HitXs], ys \in [1..k -> HitYs]} :
           k \in 0..MaxHitNodes}

CanvasClick == \E px \in PointerXs, py \in PointerYs : Click(px, py)

HitInit ==
    /\ host = "page"
    /\ stage = "live"
    /\ \E list \in HitLists : nodes = Graph(0, list)
    /\ nodesRef = nodes
    /\ edgesRef = [snap |-> 0, list |-> <<>>]
    /\ queue = <<>>
    /\ totalReports = 0
    /\ data = 0
    /\ loading = FALSE
    /\ canvas = TRUE
    /\ loop = [gen |-> 0, animId |-> 0, active |-> FALSE]
    /\ pending = {}
    /\ cancelled = {}
    /\ lastFrame = [flip |-> 0, gen |-> 0, painted |-> EmptyGraph]
    /\ inflight = {}
    /\ issued = 0
    /\ arrivals = 0
    /\ answered = <<>>
    /\ payload = NoNodesPayload
    /\ adaptOut = [state |-> "none", nodes |-> <<>>]
    /\ pointer = <<>>
    /\ selectedNode = <<>>
    /\ EntryIdle
    /\ SimIdle
    /\ FlowIdle

\* The detail panel is dismissed: onOpenChange={() => setSelectedNode(null)}.
CloseSheet ==
    /\ host = "page"
    /\ stage = "live"
    /\ SheetOpen
    /\ pointer' = <<>>
    /\ selectedNode' = <<>>
    /\ UNCHANGED <<adapterVars, viewVars, entryVars, simVars, flowVars>>

HitNext == CanvasClick \/ CloseSheet

SpecHit == HitInit /\ [][HitNext]_vars

----------------------------------------------------------------------------
(* Canvas clicks while NetworkPage loads and animates *)

\* handleCanvasClick in the running view: the pointer is within the pick
\* radius of node i of nodesRef.current and of no earlier node (hit = i), or
\* of no node (hit = 0).
NodeClick ==
    /\ host = "page"
    /\ stage = "live"
    /\ canvas
    /\ \E hit \in 0..Len(nodesRef.list) :
           selectedNode' = Select(selectedNode,
                                  IF hit = 0 THEN <<>> ELSE <<nodesRef.list[hit]>>)
    /\ UNCHANGED <<pointer, adapterVars, viewVars, entryVars, simVars, flowVars>>

SelectNext == Next \/ NodeClick \/ CloseSheet

SpecSelect == Init /\ [][SelectNext]_vars

----------------------------------------------------------------------------
(* One node entry: mapNodeType and the labels the renderers draw *)

MaxLabel == 30         \* longest label of a node entry

\* The character (code) at position i of the labels of the model; no label
\* character is a full stop.
CharAt(i) == 64 + i

Labels == {[i \in 1..n |-> CharAt(i)] : n \in 0..MaxLabel}

\* "a", the id of the entry
EntryId == <<97>>

\* "..."
Ellipsis == <<46, 46, 46>>

TypeNames ==
    {"PhoneNumber", "phone_number", "URL", "url", "email_address", "EmailAddress",
     "CompanyImpersonated", "company_name",
     "phonenumber", "PHONE_NUMBER", "Url", "Email_Address", "companyimpersonated",
     "Company_Name", "report", "ScamReport", "entity", "phone", "company", ""}

Entries == [type : TypeNames, label : Labels]

LowerCase(t) ==
    CASE t \in {"PhoneNumber", "phonenumber"} -> "phonenumber"
      [] t \in {"phone_number", "PHONE_NUMBER"} -> "phone_number"
      [] t \in {"URL", "url", "Url"} -> "url"
      [] t \in {"email_address", "Email_Address"} -> "email_address"
      [] t \in {"CompanyImpersonated", "companyimpersonated"} -> "companyimpersonated"
      [] t \in {"company_name", "Company_Name"} -> "company_name"
      [] OTHER -> t

MapNodeTypeAnyCase(type) ==
    LET t == LowerCase(type)
    IN  IF t \in {"phone_number", "phonenumber"} THEN "phone"
        ELSE IF t \in {"url", "email_address", "emailaddress"} THEN "url"
        ELSE IF t \in {"company_name", "companyimpersonated"} THEN "company"
        ELSE "report"

MapNodeType(type) ==
    IF type = "phone_number" \/ type = "PhoneNumber" THEN "phone"
    ELSE IF type = "url" \/ type = "URL" \/ type = "email_address"
            \/ type = "EmailAddress" THEN "url"
    ELSE IF type = "company_name" \/ type = "CompanyImpersonated" THEN "company"
    ELSE "report"

\* n.label || n.id
LabelOrId(label) == IF label = <<>> THEN EntryId ELSE label

PageLabelLimit == 20
PageLabelKeep  == 18
GraphLabelKeep == 24

\* label.length > 20 ? label.substring(0, 18) + "..." : label
PageLabel(label) ==
    IF Len(label) > PageLabelLimit
    THEN SubSeq(label, 1, PageLabelKeep) \o Ellipsis
    ELSE label

\* (n.label || n.id || "").slice(0, 24)
GraphLabel(label) ==
    SubSeq(LabelOrId(label), 1,
           IF Len(LabelOrId(label)) < GraphLabelKeep THEN Len(LabelOrId(label))
           ELSE GraphLabelKeep)

\* adaptGraphToNodes converts the entry.
AdaptEntry ==
    /\ ~shown.adapted
    /\ shown' = [shown EXCEPT !.adapted = TRUE,
                              !.type = MapNodeType(entry.type),
                              !.label = LabelOrId(entry.label)]
    /\ UNCHANGED <<entry, adapterVars, viewVars, hitVars, simVars, flowVars>>

\* NetworkPage's draw paints the adapted node's label.
DrawPageLabel ==
    /\ shown.adapted
    /\ ~shown.pageDrawn
    /\ shown' = [shown EXCEPT !.pageDrawn = TRUE, !.pageText = PageLabel(shown.label)]
    /\ UNCHANGED <<entry, adapterVars, viewVars, hitVars, simVars, flowVars>>

\* NetworkGraph's draw paints the label of the payload's node.
DrawGraphLabel ==
    /\ ~shown.graphDrawn
    /\ shown' = [shown EXCEPT !.graphDrawn = TRUE, !.graphText = GraphLabel(entry.label)]
    /\ UNCHANGED <<entry, adapterVars, viewVars, hitVars, simVars, flowVars>>

\* The view variables of a specification that does not run a view.
ViewAtRest ==
    /\ ViewInit
    /\ host = "page"
    /\ payload = NoNodesPayload
    /\ adaptOut = [state |-> "none", nodes |-> <<>>]
    /\ pointer = <<>>
    /\ selectedNode = <<>>

EntryInit ==
    /\ ViewAtRest
    /\ SimIdle
    /\ FlowIdle
    /\ entry \in Entries
    /\ shown = NotShown

EntryNext == AdaptEntry \/ DrawPageLabel \/ DrawGraphLabel

SpecEntry == EntryInit /\ [][EntryNext]_vars

----------------------------------------------------------------------------
(* Numbers *)

\* A JavaScript number v is modelled by the integer v * Scale, rounded toward
\* zero, while its magnitude is at most MaxFinite; beyond that it is
\* Infinity or -Infinity, and an undefined result is NaN. The model's numbers
\* have the structure of the doubles of the code with a shorter range and a
\* coarser resolution.
Scale == 100
MaxFinite == 1000000000

PosInf == MaxFinite + 1
NegInf == 0 - (MaxFinite + 1)
NaN    == MaxFinite + 2

IsNaN(a)    == a = NaN
IsFinite(a) == a >= 0 - MaxFinite /\ a <= MaxFinite

Abs(a)  == IF a < 0 THEN 0 - a ELSE a
Sign(a) == IF a < 0 THEN 0 - 1 ELSE IF a > 0 THEN 1 ELSE 0
Max2(a, b) == IF a < b THEN b ELSE a

\* A result out of range is an infinity.
Norm(n) == IF n > MaxFinite THEN PosInf ELSE IF n < 0 - MaxFinite THEN NegInf ELSE n

\* -a
Neg(a) == IF IsNaN(a) THEN NaN ELSE 0 - a

\* a + b
Add(a, b) ==
    IF IsNaN(a) \/ IsNaN(b) THEN NaN
    ELSE IF (a = PosInf /\ b = NegInf) \/ (a = NegInf /\ b = PosInf) THEN NaN
    ELSE IF a = PosInf \/ b = PosInf THEN PosInf
    ELSE IF a = NegInf \/ b = NegInf THEN NegInf
    ELSE Norm(a + b)

\* a - b
Sub(a, b) == Add(a, Neg(b))

\* a * (p / q) for a constant factor p / q of the code, 0 < p <= q
Times(a, p, q) ==
    IF ~IsFinite(a) THEN a
    ELSE Sign(a) * ((Abs(a) \div q) * p + ((Abs(a) % q) * p) \div q)

\* The largest integer in lo..hi whose square is at most n
RECURSIVE ISqrtIn(_, _, _)
ISqrtIn(n, lo, hi) ==
    IF lo >= hi THEN lo
    ELSE LET mid == (lo + hi + 1) \div 2
         IN  IF mid * mid <= n THEN ISqrtIn(n, mid, hi) ELSE ISqrtIn(n, lo, mid - 1)

\* The integer square root of n, 0 <= n < 2^31
ISqrt(n) == ISqrtIn(n, 0, 46340)

\* a * b
Mul(a, b) ==
    IF IsNaN(a) \/ IsNaN(b) THEN NaN
    ELSE IF ~IsFinite(a) \/ ~IsFinite(b)
         THEN IF a = 0 \/ b = 0 THEN NaN
              ELSE IF Sign(a) * Sign(b) > 0 THEN PosInf ELSE NegInf
    ELSE LET lo == IF Abs(a) <= Abs(b) THEN Abs(a) ELSE Abs(b)
             hi == IF Abs(a) <= Abs(b) THEN Abs(b) ELSE Abs(a)
             sg == Sign(a) * Sign(b)
         IN  IF hi \div Scale > 0 /\ lo > MaxFinite \div (hi \div Scale)
             THEN (IF sg > 0 THEN PosInf ELSE NegInf)
             ELSE Norm(sg * (lo * (hi \div Scale) + (lo * (hi % Scale)) \div Scale))

\* a / b
Div(a, b) ==
    IF IsNaN(a) \/ IsNaN(b) THEN NaN
    ELSE IF ~IsFinite(a) /\ ~IsFinite(b) THEN NaN
    ELSE IF ~IsFinite(b) THEN 0
    ELSE IF b = 0
         THEN IF a = 0 THEN NaN ELSE IF a > 0 THEN PosInf ELSE NegInf
    ELSE IF ~IsFinite(a)
         THEN IF Sign(a) * Sign(b) > 0 THEN PosInf ELSE NegInf
    ELSE LET q  == Abs(b) \div 16777216 + 1
             a1 == Abs(a) \div q
             b1 == Abs(b) \div q
         IN  Norm(Sign(a) * Sign(b) * ((a1 \div b1) * Scale + ((a1 % b1) * Scale) \div b1))

\* Math.sqrt(dx * dx + dy * dy); the squares of finite dx and dy are taken
\* to be finite, as they are for every magnitude the model can hold.
Hypot(dx, dy) ==
    IF IsNaN(dx) \/ IsNaN(dy) THEN NaN
    ELSE IF ~IsFinite(dx) \/ ~IsFinite(dy) THEN PosInf
    ELSE LET q == Max2(Abs(dx), Abs(dy)) \div 32768 + 1
         IN  Norm(ISqrt((Abs(dx) \div q) * (Abs(dx) \div q)
                        + (Abs(dy) \div q) * (Abs(dy) \div q)) * q)

\* k / (dist * dist) for a force constant k; a quotient below the resolution
\* of the model is 0.
InverseSquare(k, dist) ==
    IF IsNaN(dist) THEN NaN
    ELSE IF dist = 0 THEN PosInf
    ELSE IF Abs(dist) > 46340 THEN 0
    ELSE Norm((k * Scale * Scale * Scale) \div (dist * dist))

\* a || 1
OrOne(a) == IF a = 0 \/ IsNaN(a) THEN Scale ELSE a

\* Math.max(a, 1)
MaxOne(a) == IF IsNaN(a) THEN NaN ELSE IF a < Scale THEN Scale ELSE a

\* Math.max(lo, Math.min(hi, a))
Clamp(lo, hi, a) ==
    IF IsNaN(a) THEN NaN ELSE IF a > hi THEN hi ELSE IF a < lo THEN lo ELSE a

----------------------------------------------------------------------------
(* The seed layout of the adapters *)

CenterX == 400
CenterY == 300
SeedRadius == 200
JitterRange == 40

SeedRunsCompared == 2  \* adaptations of one payload whose layouts are compared

\* Math.cos / Math.sin of (i / n) * Math.PI * 2, in thousandths, for the
\* i-th of n <= 4 nodes (i from 0)
Cos1000(i, n) ==
    CASE n = 1 -> 1000
      [] n = 2 -> IF i = 0 THEN 1000 ELSE 0 - 1000
      [] n = 3 -> IF i = 0 THEN 1000 ELSE 0 - 500
      [] n = 4 -> << 1000, 0, 0 - 1000, 0 >>[i + 1]

Sin1000(i, n) ==
    CASE n = 1 -> 0
      [] n = 2 -> 0
      [] n = 3 -> << 0, 866, 0 - 866 >>[i + 1]
      [] n = 4 -> << 0, 1000, 0, 0 - 1000 >>[i + 1]

\* The values Math.random() returns in the model: 0 and 0.5
Randoms == {0, Scale \div 2}

\* 400 + Math.cos(angle) * 200 + Math.random() * 40
\* 300 + Math.sin(angle) * 200 + Math.random() * 40
SeedPosition(i, n, rx, ry) ==
    [x |-> Add(Add(CenterX * Scale, Times(Cos1000(i, n) * SeedRadius * Scale, 1, 1000)),
               rx * JitterRange),
     y |-> Add(Add(CenterY * Scale, Times(Sin1000(i, n) * SeedRadius * Scale, 1, 1000)),
               ry * JitterRange)]

\* The positions one adaptation gives the n nodes of a payload, with the
\* random numbers rx[k], ry[k] drawn for the k-th node.
SeedLayout(n, rx, ry) == [k \in 1..n |-> SeedPosition(k - 1, n, rx[k], ry[k])]

\* adaptGraphToNodes (adapter = "adapt") or initGraph (adapter = "init") lays
\* out the nodes of the payload; every call draws its own random numbers.
SeedRun(adapter) ==
    /\ Len(seedRuns) < SeedRunsCompared
    /\ LET n == Len(OrEmpty(payload.nodesPresent, payload.nodes))
       IN  \E rx \in [1..n -> Randoms], ry \in [1..n -> Randoms] :
               seedRuns' = Append(seedRuns, [adapter |-> adapter,
                                             layout |-> SeedLayout(n, rx, ry)])
    /\ UNCHANGED <<sim, adapterVars, viewVars, hitVars, entryVars, flowVars>>

AdaptSeeds == SeedRun("adapt")
InitGraphSeeds == SeedRun("init")

SeedPayloads ==
    {p \in Payloads : /\ p.nodesPresent
                      /\ p.edges = <<>>
                      /\ p.edgesPresent
                      /\ p.total_reports = Undefined
                      /\ \A k \in 1..Len(p.nodes) : p.nodes[k].id \notin ProtoKeys}

SeedInit ==
    /\ ViewInit
    /\ host = "page"
    /\ payload \in SeedPayloads
    /\ adaptOut = [state |-> "none", nodes |-> <<>>]
    /\ pointer = <<>>
    /\ selectedNode = <<>>
    /\ EntryIdle
    /\ SimIdle
    /\ FlowIdle

SeedNext == AdaptSeeds \/ InitGraphSeeds

SpecSeed == SeedInit /\ [][SeedNext]_vars

----------------------------------------------------------------------------
(* The force simulation of the two engines *)

PageRepulsion  == 800
GraphRepulsion == 1500
RestLength     == 120
MinX == 40
MaxX == 760
MinY == 40
MaxY == 560

MaxTicks == 12         \* ticks one simulated graph runs
MaxDuplicates == 300   \* times a payload repeats one edge

Repulsion(engine) == IF engine = "page" THEN PageRepulsion ELSE GraphRepulsion

\* The factors 0.005 / 0.01 (spring), 0.9 / 0.85 (damping) and 0.001
\* (gravity) as fractions <<p, q>>
Spring(engine)  == IF engine = "page" THEN <<5, 1000>> ELSE <<1, 100>>
Damping(engine) == IF engine = "page" THEN <<9, 10>> ELSE <<85, 100>>
Gravity == <<1, 1000>>

DistanceUnfloored(engine, dx, dy) == Hypot(dx, dy)

\* dist: Math.sqrt(dx * dx + dy * dy) || 1 (NetworkPage),
\* Math.max(Math.sqrt(dx * dx + dy * dy), 1) (NetworkGraph)
Distance(engine, dx, dy) ==
    IF engine = "page" THEN OrOne(Hypot(dx, dy)) ELSE MaxOne(Hypot(dx, dy))

RepelPairOneSided(engine, ns, i, j) ==
    LET dx    == Sub(ns[j].x, ns[i].x)
        dy    == Sub(ns[j].y, ns[i].y)
        dist  == Distance(engine, dx, dy)
        force == InverseSquare(Repulsion(engine), dist)
    IN  [ns EXCEPT ![j].vx = Add(@, Mul(Div(dx, dist), force)),
                   ![j].vy = Add(@, Mul(Div(dy, dist), force))]

\* The body of the repulsion loops for the pair of list positions i < j.
RepelPair(engine, ns, i, j) ==
    LET dx    == Sub(ns[j].x, ns[i].x)
        dy    == Sub(ns[j].y, ns[i].y)
        dist  == Distance(engine, dx, dy)
        force == InverseSquare(Repulsion(engine), dist)
        fx    == Mul(Div(dx, dist), force)
        fy    == Mul(Div(dy, dist), force)
    IN  [ns EXCEPT ![i].vx = Sub(@, fx), ![i].vy = Sub(@, fy),
                   ![j].vx = Add(@, fx), ![j].vy = Add(@, fy)]

\* for (i = 0; i < n; i++) for (j = i + 1; j < n; j++)
RECURSIVE RepelLoop(_, _, _, _)
RepelLoop(engine, ns, i, j) ==
    IF i > Len(ns) THEN ns
    ELSE IF j > Len(ns) THEN RepelLoop(engine, ns, i + 1, i + 2)
    ELSE RepelLoop(engine, RepelPair(engine, ns, i, j), i, j + 1)

Repel(engine, ns) == RepelLoop(engine, ns, 1, 2)

\* The spring force between list positions i and t, along the unit vector
\* from i to t: <<fx, fy>>
SpringForce(engine, ns, i, t) ==
    LET dx    == Sub(ns[t].x, ns[i].x)
        dy    == Sub(ns[t].y, ns[i].y)
        dist  == Distance(engine, dx, dy)
        force == Times(Sub(dist, RestLength * Scale), Spring(engine)[1], Spring(engine)[2])
    IN  << Mul(Div(dx, dist), force), Mul(Div(dy, dist), force) >>

\* next.find((n) => n.id === connId): the first list position with the id,
\* 0 for undefined
FindById(ns, id) ==
    IF \E k \in 1..Len(ns) : ns[k].id = id
    THEN CHOOSE k \in 1..Len(ns) : ns[k].id = id /\ \A l \in 1..(k - 1) : ns[l].id # id
    ELSE 0

\* NetworkPage: node.connections.forEach(...) for every node
RECURSIVE AttractPageLoop(_, _, _)
AttractPageLoop(ns, i, c) ==
    IF i > Len(ns) THEN ns
    ELSE IF c > Len(ns[i].connections) THEN AttractPageLoop(ns, i + 1, 1)
    ELSE LET t == FindById(ns, ns[i].connections[c])
             f == SpringForce("page", ns, i, t)
         IN  AttractPageLoop(IF t = 0 THEN ns
                             ELSE [ns EXCEPT ![i].vx = Add(@, f[1]), ![i].vy = Add(@, f[2])],
                             i, c + 1)

AttractPage(ns) == AttractPageLoop(ns, 1, 1)

\* A value nodeMap[id] inherits from Object.prototype: truthy, not a node.
Inherited == 0 - 1

\* nodeMap[id] after nodes.forEach((n) => (nodeMap[n.id] = n)): the last list
\* position with the id, 0 for undefined
NodeMapGet(ns, id) ==
    IF \E k \in 1..Len(ns) : ns[k].id = id
    THEN CHOOSE k \in 1..Len(ns) : ns[k].id = id /\ \A l \in (k + 1)..Len(ns) : ns[l].id # id
    ELSE IF id \in ProtoKeys THEN Inherited
    ELSE 0

\* NetworkGraph: the body of `for (const edge of edges)`. With an inherited
\* value for a or b its x and y are undefined, so dx, dist, force, fx and fy
\* are NaN.
AttractEdge(ns, edge) ==
    LET a == NodeMapGet(ns, edge.from)
        b == NodeMapGet(ns, edge.to)
    IN  IF a = 0 \/ b = 0 THEN ns
        ELSE IF a = Inherited \/ b = Inherited
        THEN [k \in 1..Len(ns) |->
                 IF k = a \/ k = b THEN [ns[k] EXCEPT !.vx = NaN, !.vy = NaN] ELSE ns[k]]
        ELSE LET f  == SpringForce("graph", ns, a, b)
                 n1 == [ns EXCEPT ![a].vx = Add(@, f[1]), ![a].vy = Add(@, f[2])]
             IN  [n1 EXCEPT ![b].vx = Sub(@, f[1]), ![b].vy = Sub(@, f[2])]

\* for (const edge of edges): the edges lo..hi in list order, those of the
\* lower half of the range before those of the upper half (simulate has
\* returned before when there are no nodes)
RECURSIVE AttractGraphLoop(_, _, _, _)
AttractGraphLoop(ns, edges, lo, hi) ==
    IF lo > hi \/ Len(ns) = 0 THEN ns
    ELSE IF lo = hi THEN AttractEdge(ns, edges[lo])
    ELSE AttractGraphLoop(AttractGraphLoop(ns, edges, lo, (lo + hi) \div 2),
                          edges, (lo + hi) \div 2 + 1, hi)

AttractGraph(ns, edges) == AttractGraphLoop(ns, edges, 1, Len(edges))

MovePageClampFirst(n) ==
    LET vx == Times(Add(n.vx, Times(Sub(CenterX * Scale, n.x), Gravity[1], Gravity[2])),
                    Damping("page")[1], Damping("page")[2])
        vy == Times(Add(n.vy, Times(Sub(CenterY * Scale, n.y), Gravity[1], Gravity[2])),
                    Damping("page")[1], Damping("page")[2])
    IN  [n EXCEPT !.vx = vx, !.vy = vy,
                  !.x = Add(Clamp(MinX * Scale, MaxX * Scale, n.x), vx),
                  !.y = Add(Clamp(MinY * Scale, MaxY * Scale, n.y), vy)]

\* Centre gravity, damping, the move; NetworkPage keeps the node in the box.
MovePage(n) ==
    LET vx == Times(Add(n.vx, Times(Sub(CenterX * Scale, n.x), Gravity[1], Gravity[2])),
                    Damping("page")[1], Damping("page")[2])
        vy == Times(Add(n.vy, Times(Sub(CenterY * Scale, n.y), Gravity[1], Gravity[2])),
                    Damping("page")[1], Damping("page")[2])
    IN  [n EXCEPT !.vx = vx, !.vy = vy,
                  !.x = Clamp(MinX * Scale, MaxX * Scale, Add(n.x, vx)),
                  !.y = Clamp(MinY * Scale, MaxY * Scale, Add(n.y, vy))]

MoveGraph(n) ==
    LET vx == Times(Add(n.vx, Times(Sub(CenterX * Scale, n.x), Gravity[1], Gravity[2])),
                    Damping("graph")[1], Damping("graph")[2])
        vy == Times(Add(n.vy, Times(Sub(CenterY * Scale, n.y), Gravity[1], Gravity[2])),
                    Damping("graph")[1], Damping("graph")[2])
    IN  [n EXCEPT !.vx = vx, !.vy = vy, !.x = Add(n.x, vx), !.y = Add(n.y, vy)]

\* One tick of NetworkPage (the updater of setNodes). `before`, `repelled`
\* and `attracted` keep the node list at the start of the tick, after the
\* repulsion loops and after the attraction loops.
PageTick(s) ==
    LET r == Repel("page", s.nodes)
        a == AttractPage(r)
    IN  [s EXCEPT !.ticks = @ + 1, !.before = s.nodes, !.repelled = r,
                  !.attracted = a,
                  !.nodes = [k \in 1..Len(a) |-> MovePage(a[k])]]

GraphTickDroppingNonFinite(s) ==
    IF s.nodes = <<>> THEN [s EXCEPT !.ticks = @ + 1]
    ELSE LET r == Repel("graph", s.nodes)
             a == AttractGraph(r, s.edges)
         IN  [s EXCEPT !.ticks = @ + 1, !.before = s.nodes, !.repelled = r,
                       !.attracted = a,
                       !.nodes = SelectSeq([k \in 1..Len(a) |-> MoveGraph(a[k])],
                                           LAMBDA n : IsFinite(n.x) /\ IsFinite(n.y))]

\* One tick of NetworkGraph: `if (!nodes.length) return`, then the same steps.
GraphTick(s) ==
    IF s.nodes = <<>> THEN [s EXCEPT !.ticks = @ + 1]
    ELSE LET r == Repel("graph", s.nodes)
             a == AttractGraph(r, s.edges)
         IN  [s EXCEPT !.ticks = @ + 1, !.before = s.nodes, !.repelled = r,
                       !.attracted = a,
                       !.nodes = [k \in 1..Len(a) |-> MoveGraph(a[k])]]

PageSimTick ==
    /\ sim.engine = "page"
    /\ sim.ticks < MaxTicks
    /\ sim' = PageTick(sim)
    /\ UNCHANGED <<seedRuns, adapterVars, viewVars, hitVars, entryVars, flowVars>>

GraphSimTick ==
    /\ sim.engine = "graph"
    /\ sim.ticks < MaxTicks
    /\ sim' = GraphTick(sim)
    /\ UNCHANGED <<seedRuns, adapterVars, viewVars, hitVars, entryVars, flowVars>>

----------------------------------------------------------------------------
(* The graphs simulated *)

Edge(f, t) == [from |-> f, to |-> t]

GraphOf(ids, edges) ==
    [nodesPresent |-> TRUE, nodes |-> [k \in 1..Len(ids) |-> [id |-> ids[k]]],
     edgesPresent |-> TRUE, edges |-> edges, total_reports |-> Undefined]

\* A position given in hundredths of a unit
At(xh, yh) == [x |-> (xh * Scale) \div 100, y |-> (yh * Scale) \div 100]

NoJitter(n) == [k \in 1..n |-> 0]

\* Layouts of two nodes: the seed layout without and with jitter, 0.5 units
\* apart, at one point, 5 units apart on a diagonal, at the rest length.
PairLayouts ==
    { SeedLayout(2, NoJitter(2), NoJitter(2)),
      SeedLayout(2, << Scale \div 2, 0 >>, << 0, Scale \div 2 >>),
      << At(40000, 30000), At(40050, 30000) >>,
      << At(40000, 30000), At(40000, 30000) >>,
      << At(40000, 30000), At(40300, 30400) >>,
      << At(34000, 30000), At(46000, 30000) >> }

TripleLayouts ==
    { SeedLayout(3, NoJitter(3), NoJitter(3)),
      << At(30000, 30000), At(40000, 30000), At(52000, 30000) >> }

PairGraphs ==
    { GraphOf(<<"a", "b">>, <<>>),
      GraphOf(<<"a", "b">>, << Edge("a", "b") >>),
      GraphOf(<<"a", "b">>, << Edge("a", "b"), Edge("a", "b") >>),
      GraphOf(<<"a", "b">>, << Edge("a", "b"), Edge("b", "a") >>),
      GraphOf(<<"a", "b">>, [k \in 1..MaxDuplicates |-> Edge("a", "b")]),
      GraphOf(<<"a", "b">>, << Edge("a", "x") >>),
      GraphOf(<<"a", "b">>, << Edge("constructor", "b") >>),
      GraphOf(<<"a", "b">>, << Edge("a", "a"), Edge("a", "b") >>) }

TripleGraphs ==
    { GraphOf(<<"a", "b", "c">>, << Edge("a", "b"), Edge("b", "c") >>),
      GraphOf(<<"a", "b", "c">>, << Edge("a", "b"), Edge("b", "c"), Edge("c", "a") >>) }

SimCases ==
    {<<GraphOf(<<>>, <<>>), <<>>>>,
     <<GraphOf(<<"a">>, <<>>), SeedLayout(1, NoJitter(1), NoJitter(1))>>}
    \cup (PairGraphs \X PairLayouts)
    \cup (TripleGraphs \X TripleLayouts)

\* The node list a view simulates: the adapted nodes (NetworkPage) or the
\* payload's nodes (NetworkGraph) at the positions of the layout, at rest.
\* `edges` is the payload's edge list: NetworkGraph simulates it, NetworkPage
\* simulates the connections adapted from it.
Placed(list, layout) ==
    [k \in 1..Len(list) |->
        [id |-> list[k].id,
         connections |-> IF "connections" \in DOMAIN list[k]
                         THEN list[k].connections ELSE <<>>,
         x |-> layout[k].x, y |-> layout[k].y, vx |-> 0, vy |-> 0]]

StartSim(engine, list, edges, layout) ==
    [engine |-> engine, ticks |-> 0, nodes |-> Placed(list, layout), edges |-> edges,
     before |-> <<>>, repelled |-> <<>>, attracted |-> <<>>]

SimStarts ==
    {StartSim("page", AdaptGraphToNodes(c[1]).nodes, InitGraphEdges(c[1]), c[2]) :
        c \in {d \in SimCases : /\ Len(d[1].edges) < MaxDuplicates
                                 /\ ~AdaptGraphToNodes(d[1]).threw}}
    \cup
    {StartSim("graph", InitGraphNodes(c[1]), InitGraphEdges(c[1]), c[2]) : c \in SimCases}

SimInit ==
    /\ ViewAtRest
    /\ EntryIdle
    /\ FlowIdle
    /\ seedRuns = <<>>
    /\ sim \in SimStarts

SimNext == PageSimTick \/ GraphSimTick

SpecSim == SimInit /\ [][SimNext]_vars

----------------------------------------------------------------------------
(* AnalysisPage: the scan status subscription (subscribeScanStatus) *)

MaxEvents == 3         \* events one subscription delivers before the stream ends

StepCount == 6         \* analysisSteps.length
CompleteDelay == 800   \* the delay of the navigation onComplete schedules
ErrorDelay    == 500   \* the delay of the navigation onError schedules

\* stepNameToIndex[stepName]; Undefined for a name that is no key
StepNameToIndex(name) ==
    CASE name = "reka_vision"     -> 0
      [] name = "voice_analysis"  -> 0
      [] name = "gliner_extract"  -> 1
      [] name = "tavily_search"   -> 2
      [] name = "yutori_research" -> 3
      [] name = "verdict"         -> 5
      [] OTHER                    -> Undefined

\* completionEvents[event]; Undefined for an event that is no key
CompletionEvents(event) ==
    CASE event = "reka_complete"   -> 0
      [] event = "voice_complete"  -> 0
      [] event = "gliner_complete" -> 1
      [] event = "tavily_complete" -> 2
      [] event = "yutori_complete" -> 3
      [] OTHER                     -> Undefined

\* The event types subscribeScanStatus listens to
EventTypes ==
    {"scan_started", "step", "reka_complete", "voice_complete", "gliner_complete",
     "tavily_complete", "yutori_complete", "verdict", "complete"}

StepNames == {"reka_vision", "gliner_extract", "verdict", "unknown", ""}

\* The events of a stream: the type, data.step ("" when absent), whether the
\* data carries the detail a finding is made of (data.visual || data.voice),
\* and whether the data is JSON.
ScanEvents ==
    {ev \in [event : EventTypes \cup {"message"}, step : StepNames,
             detail : BOOLEAN, json : BOOLEAN] :
        /\ (ev.event \notin {"step", "message"} => ev.step = "")
        /\ (ev.event \notin {"reka_complete", "voice_complete"} => ~ev.detail)}

\* The onEvent callback of AnalysisPage
OnEvent(a, ev) ==
    LET idx     == CompletionEvents(ev.event)
        started == IF ev.event \in {"step", "message"}
                      /\ ev.step # "" /\ StepNameToIndex(ev.step) # Undefined
                   THEN [a EXCEPT !.currentStep = StepNameToIndex(ev.step)]
                   ELSE a
        done    == IF idx # Undefined
                   THEN [started EXCEPT
                            !.completedSteps = @ \cup {idx},
                            !.currentStep = Max2(@, idx + 1),
                            !.findings = IF ev.event \in {"reka_complete", "voice_complete"}
                                            /\ ~ev.detail
                                         THEN @ ELSE @ \cup {idx}]
                   ELSE started
    IN  IF ev.event = "verdict"
        THEN [done EXCEPT !.completedSteps = @ \cup {4}, !.findings = @ \cup {4}]
        ELSE done

\* setTimeout(() => navigate(`/verdict/${scanId}`), delay)
ScheduleNavigation(a, delay) ==
    [a EXCEPT !.scheduled = @ + 1, !.timers = Append(@, delay)]

\* The onComplete callback of AnalysisPage
OnComplete(a) ==
    ScheduleNavigation([a EXCEPT !.completedSteps = 0..5, !.currentStep = StepCount],
                       CompleteDelay)

\* The onError callback of AnalysisPage
OnError(a) == ScheduleNavigation(a, ErrorDelay)

\* sse.onerror: sse.close(); onError?.(err); onComplete()
OnStreamError(a) ==
    OnComplete(OnError([a EXCEPT !.sse = "closed", !.ended = "error"]))

\* A listener of subscribeScanStatus: JSON.parse, onEvent, and for "complete"
\* sse.close() and onComplete(); data that is no JSON throws into the empty
\* catch.
Listener(a, ev) ==
    IF ~ev.json THEN a
    ELSE IF ev.event = "complete"
    THEN OnComplete([OnEvent(a, ev) EXCEPT !.sse = "closed", !.ended = "complete"])
    ELSE OnEvent(a, ev)

\* The effect of AnalysisPage runs with a scan id: the EventSource opens.
Subscribe ==
    /\ analysis.mounted
    /\ analysis.sse = "none"
    /\ analysis' = [analysis EXCEPT !.sse = "open"]
    /\ UNCHANGED <<verdictView, adapterVars, viewVars, hitVars, entryVars, simVars>>

\* The stream delivers an event.
DeliverEvent ==
    /\ analysis.sse = "open"
    /\ analysis.delivered < MaxEvents
    /\ \E ev \in ScanEvents :
           analysis' = [Listener(analysis, ev) EXCEPT !.delivered = @ + 1]
    /\ UNCHANGED <<verdictView, adapterVars, viewVars, hitVars, entryVars, simVars>>

\* The stream fails (the server is unreachable or drops the connection).
StreamError ==
    /\ analysis.sse = "open"
    /\ analysis' = OnStreamError(analysis)
    /\ UNCHANGED <<verdictView, adapterVars, viewVars, hitVars, entryVars, simVars>>

\* The position of the timer that is due first: the least delay, the earlier
\* one of two equal delays.
DueFirst(timers) ==
    CHOOSE i \in 1..Len(timers) :
        \A j \in 1..Len(timers) : timers[i] < timers[j] \/ (timers[i] = timers[j] /\ i <= j)

\* A navigation timer fires: navigate(...) leaves the page, and the cleanup
\* of the effect closes the EventSource. Timers are not cleared.
NavigationTimer ==
    /\ analysis.timers # <<>>
    /\ analysis' = [analysis EXCEPT
                       !.timers = [i \in 1..(Len(@) - 1) |->
                                      IF i < DueFirst(@) THEN @[i] ELSE @[i + 1]],
                       !.navigations = @ + 1,
                       !.mounted = FALSE,
                       !.sse = IF @ = "open" THEN "closed" ELSE @]
    /\ UNCHANGED <<verdictView, adapterVars, viewVars, hitVars, entryVars, simVars>>

\* The user leaves AnalysisPage: the cleanup closes the EventSource.
LeaveAnalysis ==
    /\ analysis.mounted
    /\ analysis.sse # "none"
    /\ analysis' = [analysis EXCEPT !.mounted = FALSE,
                                    !.sse = IF @ = "open" THEN "closed" ELSE @]
    /\ UNCHANGED <<verdictView, adapterVars, viewVars, hitVars, entryVars, simVars>>

ScanInit ==
    /\ ViewAtRest
    /\ EntryIdle
    /\ SimIdle
    /\ analysis = [NoAnalysis EXCEPT !.mounted = TRUE]
    /\ verdictView = NoVerdictView

ScanNext ==
    \/ Subscribe
    \/ DeliverEvent
    \/ StreamError
    \/ NavigationTimer
    \/ LeaveAnalysis

SpecScan == ScanInit /\ [][ScanNext]_vars

----------------------------------------------------------------------------
(* VerdictPage: the verdict polling effect *)

MaxEffects == 2        \* runs of the polling effect (the first and the id changes)

MaxAttempts == 10      \* maxAttempts

ScanIds == {"s1", "s2"}

\* BackendVerdict.level
Levels == {"RED", "YELLOW", "GREEN", "pending"}

\* The answers of GET /api/scan/:id/verdict: the status is ok or not, and the
\* body has a verdict of some level or none.
Responses == [ok : BOOLEAN, verdict : Levels \cup {"absent"}]

\* getScanVerdict: null (the empty sequence) unless the response is ok
GetScanVerdict(id, resp) ==
    IF resp.ok THEN <<[scan_id |-> id, verdict |-> resp.verdict]>> ELSE <<>>

\* levelToVerdict[verdict?.level || "pending"] || "caution"
LevelToVerdict(level) ==
    CASE level = "RED"    -> "scam"
      [] level = "YELLOW" -> "caution"
      [] level = "GREEN"  -> "safe"
      [] OTHER            -> "caution"

\* adaptScanResult, as far as the id and the verdict of the scan go
AdaptScanResult(backend) ==
    [id |-> backend.scan_id, verdict |-> LevelToVerdict(backend.verdict)]

\* result && result.verdict
CarriesVerdict(result) == result # <<>> /\ result[1].verdict # "absent"

RetryThroughLimit(attempts) == attempts <= MaxAttempts

\* attempts < maxAttempts
MayRetry(attempts) == attempts < MaxAttempts

\* One run of the effect: its id, its locals cancelled and attempts, where
\* load is (awaiting getScanVerdict, waiting for the timer, or returned for
\* good), and the requests it issued.
NewEffect(id) ==
    [id |-> id, cancelled |-> FALSE, attempts |-> 0, phase |-> "awaiting", requests |-> 1]

\* The cleanup of the effect that ran last: cancelled = true
Cleanup(effects) ==
    [i \in 1..Len(effects) |->
        IF i = Len(effects) THEN [effects[i] EXCEPT !.cancelled = TRUE] ELSE effects[i]]

\* load continues after await getScanVerdict(id) in run i of the effect.
Load(v, i, resp) ==
    LET run    == v.effects[i]
        result == GetScanVerdict(run.id, resp)
        seen   == [v EXCEPT !.carried = IF resp.ok /\ resp.verdict \in Levels
                                        THEN @ \cup {run.id} ELSE @]
    IN  IF run.cancelled
        THEN [seen EXCEPT !.effects[i].phase = "returned"]
        ELSE IF CarriesVerdict(result)
        THEN [seen EXCEPT !.scan = <<AdaptScanResult(result[1])>>,
                          !.loading = FALSE,
                          !.effects[i].phase = "returned"]
        ELSE IF MayRetry(run.attempts + 1)
        THEN [seen EXCEPT !.effects[i].attempts = @ + 1,
                          !.effects[i].phase = "timer"]
        ELSE [seen EXCEPT !.effects[i].attempts = @ + 1,
                          !.effects[i].phase = "returned",
                          !.loading = FALSE]

\* The effect runs after the first render: load() issues the first request.
StartPolling ==
    /\ verdictView.mounted
    /\ verdictView.effects = <<>>
    /\ verdictView' = [verdictView EXCEPT !.effects = <<NewEffect(verdictView.id)>>]
    /\ UNCHANGED <<analysis, adapterVars, viewVars, hitVars, entryVars, simVars>>

\* The id of the route changes: the cleanup of the previous run, then the
\* effect runs again. scan and loading keep their values.
ChangeScanId ==
    /\ verdictView.mounted
    /\ verdictView.effects # <<>>
    /\ Len(verdictView.effects) < MaxEffects
    /\ \E id \in ScanIds \ {verdictView.id} :
           verdictView' = [verdictView EXCEPT
                              !.id = id,
                              !.effects = Append(Cleanup(@), NewEffect(id))]
    /\ UNCHANGED <<analysis, adapterVars, viewVars, hitVars, entryVars, simVars>>

\* The response of a request arrives.
VerdictResponse ==
    /\ \E i \in 1..Len(verdictView.effects), resp \in Responses :
           /\ verdictView.effects[i].phase = "awaiting"
           /\ verdictView' = Load(verdictView, i, resp)
    /\ UNCHANGED <<analysis, adapterVars, viewVars, hitVars, entryVars, simVars>>

\* The timer of window.setTimeout(load, 600) fires: load issues the next
\* request. The cleanup does not clear the timer.
RetryTimer ==
    /\ \E i \in 1..Len(verdictView.effects) :
           /\ verdictView.effects[i].phase = "timer"
           /\ verdictView' = [verdictView EXCEPT !.effects[i].phase = "awaiting",
                                                 !.effects[i].requests = @ + 1]
    /\ UNCHANGED <<analysis, adapterVars, viewVars, hitVars, entryVars, simVars>>

\* The user leaves VerdictPage: the cleanup of the effect.
LeaveVerdict ==
    /\ verdictView.mounted
    /\ verdictView.effects # <<>>
    /\ verdictView' = [verdictView EXCEPT !.mounted = FALSE, !.effects = Cleanup(@)]
    /\ UNCHANGED <<analysis, adapterVars, viewVars, hitVars, entryVars, simVars>>

\* VerdictPage rendered at /verdict/s1, before its effect ran
PollInit ==
    /\ ViewAtRest
    /\ EntryIdle
    /\ SimIdle
    /\ analysis = NoAnalysis
    /\ verdictView = [NoVerdictView EXCEPT !.mounted = TRUE, !.id = "s1"]

PollNext ==
    \/ StartPolling
    \/ ChangeScanId
    \/ VerdictResponse
    \/ RetryTimer
    \/ LeaveVerdict

\* The effect runs after the render, a request is answered (getScanVerdict
\* resolves to null when fetch fails), and a timer that was set fires.
SpecPoll ==
    /\ PollInit
    /\ [][PollNext]_vars
    /\ WF_vars(StartPolling)
    /\ WF_vars(VerdictResponse)
    /\ WF_vars(RetryTimer)

----------------------------------------------------------------------------
(* Properties *)

AdaptReturned == adaptOut.state = "returned"

ConnSet(n) == {n.connections[k] : k \in 1..Len(n.connections)}

\* C1: after adaptation no node's connections holds an id that is not a node
\* of the adapted graph, and initGraph keeps no edge whose from or to names an
\* unknown node.
C1_NoDanglingReference ==
    /\ AdaptReturned =>
          \A i \in 1..Len(adaptOut.nodes) :
              ConnSet(adaptOut.nodes[i]) \subseteq Ids(adaptOut.nodes)
    /\ host = "graph" =>
          \A k \in 1..Len(edgesRef.list) :
              /\ edgesRef.list[k].from \in Ids(nodesRef.list)
              /\ edgesRef.list[k].to \in Ids(nodesRef.list)

\* C2: in every graph adaptGraphToNodes returns, for any two nodes a and b,
\* b.id is in a.connections exactly when a.id is in b.connections.
C2_AdjacencySymmetric ==
    AdaptReturned =>
        \A i, j \in 1..Len(adaptOut.nodes) :
            (adaptOut.nodes[j].id \in ConnSet(adaptOut.nodes[i]))
                <=> (adaptOut.nodes[i].id \in ConnSet(adaptOut.nodes[j]))

\* An edge listed in both directions between two nodes of the graph.
C2_Witness ==
    /\ AdaptReturned
    /\ payload.nodes = << [id |-> "a"], [id |-> "b"] >>
    /\ payload.edges = << [from |-> "a", to |-> "b"], [from |-> "b", to |-> "a"] >>
    /\ adaptOut.nodes[1].connections = <<"b">>

\* C3: a click selects the first node in list order whose distance from the
\* pointer is strictly below 16, and nothing when no node is that close.
C3_HitTestFirstWithin16 ==
    pointer # <<>> =>
        LET list == nodesRef.list
            near == {i \in 1..Len(list) :
                        (list[i].x - pointer[1]) * (list[i].x - pointer[1])
                        + (list[i].y - pointer[2]) * (list[i].y - pointer[2]) < 256}
        IN  IF near = {} THEN selectedNode = <<>>
            ELSE \E i \in near : /\ \A j \in near : i <= j
                                 /\ selectedNode = <<list[i]>>

\* The pointer is exactly at the second node's centre, the first node is
\* elsewhere but within 16 units, and the first node is selected.
C3_Witness ==
    /\ pointer # <<>>
    /\ Len(nodesRef.list) = 2
    /\ nodesRef.list[2].x = pointer[1]
    /\ nodesRef.list[2].y = pointer[2]
    /\ nodesRef.list[1].x # nodesRef.list[2].x
    /\ selectedNode = <<nodesRef.list[1]>>

\* The layout the tick issued by the latest frame produces: NetworkGraph's
\* tick has acted on nodesRef.current, NetworkPage's acts when the queue is
\* applied.
TickResult == IF host = "page" THEN ApplyAll(nodes, queue) ELSE nodesRef

\* C4: the frame painted in an iteration shows the positions that iteration's
\* tick produced.
C4_PaintShowsOwnTick ==
    [][lastFrame'.flip # lastFrame.flip => lastFrame'.painted = TickResult']_vars

\* C5: once the cleanup of a loop has run, no frame of that loop executes.
C5_NoFrameAfterCancel ==
    [][lastFrame'.flip # lastFrame.flip => lastFrame'.gen \notin cancelled']_vars

\* A loop that has run frames was cancelled while its next frame was pending.
C5_Witness ==
    /\ lastFrame.gen \in cancelled
    /\ lastFrame.flip = 0
    /\ pending = {}

\* C6: while the view with its canvas is shown and not torn down, the loop is
\* alive: its next frame is always scheduled.
C6_LoopAlive == (stage = "live" /\ canvas) => pending # {}

\* C7: the list the view shows once its queued updates are rendered is that of
\* the payload received last (no tick of an older list replaces it), and the
\* nodes and edges a tick reads belong to one snapshot.
C7_TickOnOneSnapshot ==
    /\ (host = "page" /\ stage = "live") => ApplyAll(nodes, queue).snap = arrivals
    /\ host = "graph" => (nodesRef.snap = arrivals /\ edgesRef.snap = nodesRef.snap)

\* A tick is issued while a received payload waits for the next render.
C7_Witness ==
    /\ host = "page"
    /\ Len(queue) = 2
    /\ queue[1].kind = "nodes"
    /\ queue[2].kind = "fn"

NodesMissing == ~payload.nodesPresent \/ payload.nodes = <<>>

\* C8: adapting a payload whose nodes are absent or empty, or whose edges are
\* absent, never throws.
C8_NeverThrows ==
    (NodesMissing \/ ~payload.edgesPresent) => adaptOut.state # "threw"

\* C9: no two nodes of an adapted graph have the same id.
C9_UniqueNodeIds ==
    /\ AdaptReturned =>
          \A i, j \in 1..Len(adaptOut.nodes) :
              adaptOut.nodes[i].id = adaptOut.nodes[j].id => i = j
    /\ host = "graph" =>
          \A i, j \in 1..Len(nodesRef.list) :
              nodesRef.list[i].id = nodesRef.list[j].id => i = j

\* The other endpoints of the payload's edges at id.
Neighbours(id) ==
    {payload.edges[k].to : k \in {k \in 1..Len(payload.edges) : payload.edges[k].from = id}}
    \cup
    {payload.edges[k].from : k \in {k \in 1..Len(payload.edges) : payload.edges[k].to = id}}

\* C10: every node's connections are exactly the other endpoints of its
\* edges, each listed once; nodes a, b with one edge a -> b and total_reports
\* 5 give a.connections = {b}, b.connections = {a} and totalReports = 5.
C10_ConnectionsAreNeighbourSet ==
    /\ AdaptReturned =>
          \A i \in 1..Len(adaptOut.nodes) :
              LET n == adaptOut.nodes[i]
              IN  /\ ConnSet(n) = Neighbours(n.id)
                  /\ \A k, l \in 1..Len(n.connections) :
                        n.connections[k] = n.connections[l] => k = l
    /\ (AdaptReturned /\ payload = ScenarioPayload) =>
          adaptOut.nodes = << [id |-> "a", connections |-> <<"b">>],
                              [id |-> "b", connections |-> <<"a">>] >>
    /\ (host = "page" /\ payload = ScenarioPayload /\ nodes.snap = 1) =>
          /\ nodes.list = << [id |-> "a", connections |-> <<"b">>],
                             [id |-> "b", connections |-> <<"a">>] >>
          /\ totalReports = 5

\* The payload repeats the edge a -> b; the page shows the adapted graph.
C10_Witness ==
    /\ AdaptReturned
    /\ payload.nodes = << [id |-> "a"], [id |-> "b"] >>
    /\ payload.edges = << [from |-> "a", to |-> "b"], [from |-> "a", to |-> "b"] >>
    /\ payload.total_reports = 5
    /\ host = "page"
    /\ nodes.snap = 1
    /\ Len(nodes.list) = 2
    /\ nodes.list[1].connections = <<"b">>
    /\ totalReports = 5

\* C11: the adapted type is phone for "PhoneNumber" and "phone_number", url
\* for "URL", "url", "email_address" and "EmailAddress", company for
\* "CompanyImpersonated" and "company_name", and report for every other
\* string, other capitalisations included.
C11_TypeLookupTotal ==
    shown.adapted =>
        /\ shown.type \in {"phone", "url", "company", "report"}
        /\ shown.type = "phone" <=> entry.type \in {"PhoneNumber", "phone_number"}
        /\ shown.type = "url" <=>
               entry.type \in {"URL", "url", "email_address", "EmailAddress"}
        /\ shown.type = "company" <=>
               entry.type \in {"CompanyImpersonated", "company_name"}

\* Another capitalisation of a known spelling is adapted to report.
C11_Witness ==
    /\ shown.adapted
    /\ entry.type = "Url"
    /\ shown.type = "report"

\* C12: after a canvas click the selection is the hit-test result of that
\* click (none when the click hit no node, whatever was selected before), and
\* the detail panel is open exactly when a node is selected.
C12_SelectionFollowsClick ==
    [][pointer' # <<>> =>
          /\ selectedNode' = FindNode(nodesRef.list, 1, pointer'[1], pointer'[2])
          /\ SheetOpen' <=> (FindNode(nodesRef.list, 1, pointer'[1], pointer'[2]) # <<>>)]_vars

\* A click into empty space of a graph that has nodes: nothing is selected
\* and the panel is closed.
C12_Witness ==
    /\ pointer # <<>>
    /\ nodesRef.list # <<>>
    /\ selectedNode = <<>>
    /\ ~SheetOpen

\* The list the tick of the next frame acts on.
TickInput == IF host = "page" THEN ApplyAll(nodes, queue) ELSE nodesRef

\* C16: a frame that runs on a graph without nodes changes nothing in the
\* graph, paints no node, and leaves the next frame of its loop scheduled.
C16_EmptyGraphFrame ==
    [][(lastFrame'.flip # lastFrame.flip /\ TickInput.list = <<>>) =>
          /\ TickResult' = TickInput
          /\ lastFrame'.painted.list = <<>>
          /\ \E f \in pending' : f.gen = lastFrame'.gen]_vars

\* NetworkGraph has received a payload without nodes and its loop has run a
\* frame on the empty graph; the next frame is pending.
C16_Witness ==
    /\ host = "graph"
    /\ arrivals > 0
    /\ nodesRef.list = <<>>
    /\ lastFrame.gen > 0
    /\ lastFrame.painted = nodesRef
    /\ pending # {}

\* The text `drawn` is `label` cut with an ellipsis suffix: unchanged or a
\* proper prefix followed by the ellipsis, the first 18 characters and the
\* ellipsis for a label of length 30, and unchanged up to 18 characters.
CutWithEllipsis(label, drawn) ==
    /\ \/ drawn = label
       \/ \E k \in 0..(Len(label) - 1) : drawn = SubSeq(label, 1, k) \o Ellipsis
    /\ Len(label) = 30 => drawn = SubSeq(label, 1, 18) \o Ellipsis
    /\ Len(label) <= 18 => drawn = label

\* C13: both renderers draw a node's label cut to a fixed maximum length with
\* an ellipsis suffix whenever it was cut.
C13_LabelsCutWithEllipsis ==
    /\ shown.pageDrawn => CutWithEllipsis(shown.label, shown.pageText)
    /\ shown.graphDrawn => CutWithEllipsis(LabelOrId(entry.label), shown.graphText)

\* C17: two runs of the same adapter on the same payload give every node
\* the same initial position.
C17_SeedLayoutRepeatable ==
    \A r1, r2 \in 1..Len(seedRuns) :
        seedRuns[r1].adapter = seedRuns[r2].adapter =>
            seedRuns[r1].layout = seedRuns[r2].layout

\* The nodes of a list all have finite positions and velocities.
AllFinite(ns) ==
    \A k \in 1..Len(ns) :
        IsFinite(ns[k].x) /\ IsFinite(ns[k].y) /\ IsFinite(ns[k].vx) /\ IsFinite(ns[k].vy)

\* A tick has run on the graph under simulation and took finite values
\* through its repulsion and attraction steps.
TickedFinite ==
    /\ sim.ticks > 0
    /\ sim.before # <<>>
    /\ AllFinite(sim.before) /\ AllFinite(sim.repelled) /\ AllFinite(sim.attracted)

\* What a step added to the velocity of list position k
DeltaVx(from, to, k) == to[k].vx - from[k].vx
DeltaVy(from, to, k) == to[k].vy - from[k].vy

\* The Euclidean distance of list positions i and j, before any floor
Apart(ns, i, j) == Hypot(Sub(ns[j].x, ns[i].x), Sub(ns[j].y, ns[i].y))

\* C18: the distance a tick's force formulas use is the Euclidean distance
\* floored at 1 unit, also for two nodes between 0 and 1 unit apart, so the
\* repulsion step changes no velocity component by more than K_rep for each
\* other node.
C18_DistanceFlooredAtOne ==
    TickedFinite =>
        \A i \in 1..Len(sim.before) :
            /\ \A j \in 1..Len(sim.before) :
                   i # j => Distance(sim.engine, Sub(sim.before[j].x, sim.before[i].x),
                                     Sub(sim.before[j].y, sim.before[i].y))
                            = Max2(Apart(sim.before, i, j), Scale)
            /\ Abs(DeltaVx(sim.before, sim.repelled, i))
                   <= (Len(sim.before) - 1) * Repulsion(sim.engine) * Scale
            /\ Abs(DeltaVy(sim.before, sim.repelled, i))
                   <= (Len(sim.before) - 1) * Repulsion(sim.engine) * Scale

\* The payload lists an edge between the nodes at list positions i and t, in
\* either direction, any number of times.
Linked(ns, edges, i, t) ==
    \E e \in 1..Len(edges) :
        \/ edges[e].from = ns[i].id /\ edges[e].to = ns[t].id
        \/ edges[e].from = ns[t].id /\ edges[e].to = ns[i].id

\* The spring forces of the edges at list position i, each edge once: the
\* component c (1 = x, 2 = y) summed over the neighbours t..Len(ns).
RECURSIVE SpringOnce(_, _, _, _, _, _)
SpringOnce(engine, ns, edges, i, t, c) ==
    IF t > Len(ns) THEN 0
    ELSE (IF t # i /\ Linked(ns, edges, i, t) THEN SpringForce(engine, ns, i, t)[c] ELSE 0)
         + SpringOnce(engine, ns, edges, i, t + 1, c)

\* Every edge of the payload joins two nodes of the simulated list.
EdgesJoinNodes ==
    \A e \in 1..Len(sim.edges) :
        /\ \E k \in 1..Len(sim.nodes) : sim.nodes[k].id = sim.edges[e].from
        /\ \E k \in 1..Len(sim.nodes) : sim.nodes[k].id = sim.edges[e].to

\* C19: in one tick the attraction step adds to each node's velocity the
\* spring force (d - 120) * K_attr of each of its edges exactly once, however
\* many times and in whichever directions the payload lists the edge, with
\* opposite amounts at the two endpoints.
C19_EachEdgeOnce ==
    (TickedFinite /\ EdgesJoinNodes) =>
        \A i \in 1..Len(sim.repelled) :
            /\ DeltaVx(sim.repelled, sim.attracted, i)
                   = SpringOnce(sim.engine, sim.repelled, sim.edges, i, 1, 1)
            /\ DeltaVy(sim.repelled, sim.attracted, i)
                   = SpringOnce(sim.engine, sim.repelled, sim.edges, i, 1, 2)

\* The repulsion between list positions i < j along the unit vector from i
\* to j, component c (1 = x, 2 = y): what the pair's visit subtracts from
\* the velocity of i and adds to that of j.
Push(engine, ns, i, j, c) ==
    LET dx   == Sub(ns[j].x, ns[i].x)
        dy   == Sub(ns[j].y, ns[i].y)
        dist == Distance(engine, dx, dy)
    IN  Mul(Div(IF c = 1 THEN dx ELSE dy, dist), InverseSquare(Repulsion(engine), dist))

\* What one visit of every unordered pair adds to the velocity of list
\* position i, summed over the other positions t..Len(ns).
RECURSIVE PushedOnce(_, _, _, _, _)
PushedOnce(engine, ns, i, t, c) ==
    IF t > Len(ns) THEN 0
    ELSE (IF t < i THEN Push(engine, ns, t, i, c)
          ELSE IF t > i THEN 0 - Push(engine, ns, i, t, c)
          ELSE 0)
         + PushedOnce(engine, ns, i, t + 1, c)

\* The sum over the list positions k..Len(from) of what a step added to the
\* velocities, component c
RECURSIVE DeltaSum(_, _, _, _)
DeltaSum(from, to, k, c) ==
    IF k > Len(from) THEN 0
    ELSE (IF c = 1 THEN DeltaVx(from, to, k) ELSE DeltaVy(from, to, k))
         + DeltaSum(from, to, k + 1, c)

\* C20: the repulsion step of a tick visits every unordered pair of distinct
\* list positions exactly once, subtracts the pair's force from the velocity
\* of the first and adds the same amount to that of the second, so it leaves
\* the sum of all velocities unchanged.
C20_RepulsionPairwiseOpposite ==
    TickedFinite =>
        /\ \A i \in 1..Len(sim.before) :
               /\ DeltaVx(sim.before, sim.repelled, i)
                      = PushedOnce(sim.engine, sim.before, i, 1, 1)
               /\ DeltaVy(sim.before, sim.repelled, i)
                      = PushedOnce(sim.engine, sim.before, i, 1, 2)
        /\ DeltaSum(sim.before, sim.repelled, 1, 1) = 0
        /\ DeltaSum(sim.before, sim.repelled, 1, 2) = 0

\* C20 witness: a tick on three nodes in which the repulsion step changed the
\* velocity of every node.
C20_Witness ==
    /\ TickedFinite
    /\ Len(sim.before) = 3
    /\ \A i \in 1..3 : DeltaVx(sim.before, sim.repelled, i) # 0
                       \/ DeltaVy(sim.before, sim.repelled, i) # 0

\* C14: the position and velocity components of every node are finite in
\* every reachable state of a simulation; a force that is not finite is left
\* out of the velocity instead of being added.
C14_AlwaysFinite == AllFinite(sim.nodes)

\* vx^2 + vy^2 of one node, in hundreds of square units
NodeEnergy(n) ==
    Add(Mul(Times(n.vx, 1, 10), Times(n.vx, 1, 10)),
        Mul(Times(n.vy, 1, 10), Times(n.vy, 1, 10)))

\* The total kinetic energy of the list positions k..Len(ns)
RECURSIVE Energy(_, _)
Energy(ns, k) ==
    IF k > Len(ns) THEN 0 ELSE Add(NodeEnergy(ns[k]), Energy(ns, k + 1))

\* C15: from finite start positions at rest the total kinetic energy, the
\* sum over the nodes of vx^2 + vy^2, is finite after any number of ticks of
\* either engine (here on the graphs whose edges all join two of their
\* nodes).
C15_EnergyFinite == EdgesJoinNodes => IsFinite(Energy(sim.nodes, 1))

\* The position is inside the viewport rectangle of NetworkPage.
InBox(n) ==
    /\ MinX * Scale <= n.x /\ n.x <= MaxX * Scale
    /\ MinY * Scale <= n.y /\ n.y <= MaxY * Scale

\* C21: in NetworkPage the clamp is the last step of a node's update, applied
\* to the position integrated with the damped velocity, and after every tick
\* every node has 40 <= x <= 760 and 40 <= y <= 560.
C21_ClampedAfterTick ==
    (sim.engine = "page" /\ sim.ticks > 0) =>
        \A k \in 1..Len(sim.nodes) :
            /\ InBox(sim.nodes[k])
            /\ sim.nodes[k].x = Clamp(MinX * Scale, MaxX * Scale,
                                      Add(sim.attracted[k].x, sim.nodes[k].vx))
            /\ sim.nodes[k].y = Clamp(MinY * Scale, MaxY * Scale,
                                      Add(sim.attracted[k].y, sim.nodes[k].vy))

\* C21 witness: a tick of NetworkPage threw a node beyond the left wall and
\* the clamp put it on the wall.
C21_Witness ==
    /\ sim.engine = "page"
    /\ sim.ticks > 0
    /\ \E k \in 1..Len(sim.nodes) :
           /\ sim.nodes[k].x = MinX * Scale
           /\ Add(sim.attracted[k].x, sim.nodes[k].vx) < MinX * Scale

\* Both endpoint ids of the edge are ids of nodes of the list.
JoinsNodes(ns, edge) ==
    /\ \E k \in 1..Len(ns) : ns[k].id = edge.from
    /\ \E k \in 1..Len(ns) : ns[k].id = edge.to

\* The edges of the list that join two nodes, in list order
KnownEdges(ns, edges) == SelectSeq(edges, LAMBDA edge : JoinsNodes(ns, edge))

\* The nodes with the connections that name a node of the list
KnownConnections(ns) ==
    [k \in 1..Len(ns) |->
        [ns[k] EXCEPT !.connections =
            SelectSeq(@, LAMBDA id : \E l \in 1..Len(ns) : ns[l].id = id)]]

\* NetworkGraph draw: the edges that pass `if (!a || !b) continue`, for which
\* the path from a to b is stroked
GraphLines(ns, edges) ==
    SelectSeq(edges, LAMBDA edge : NodeMapGet(ns, edge.from) # 0
                                   /\ NodeMapGet(ns, edge.to) # 0)

\* NetworkPage draw: the <<node, connection>> pairs with `if (target)` true,
\* for which the line from the node to the target is stroked
PageLines(ns) ==
    UNION {{<<ns[k].id, ns[k].connections[c]>> :
                c \in {d \in 1..Len(ns[k].connections) :
                          FindById(ns, ns[k].connections[d]) # 0}} :
           k \in 1..Len(ns)}

\* The velocities of two node lists of one length are the same.
SameVelocities(ms, ns) ==
    /\ Len(ms) = Len(ns)
    /\ \A k \in 1..Len(ms) : ms[k].vx = ns[k].vx /\ ms[k].vy = ns[k].vy

\* C22: an edge or connection with an endpoint id that is not the id of a
\* current node is skipped by the simulation and by the renderer: the tick's
\* attraction step is that of the remaining edges, and no line is stroked
\* for it.
C22_DanglingEdgeSkipped ==
    (sim.ticks > 0 /\ sim.before # <<>>) =>
        IF sim.engine = "page"
        THEN /\ SameVelocities(sim.attracted, AttractPage(KnownConnections(sim.repelled)))
             /\ \A l \in PageLines(sim.nodes) : l[2] \in Ids(sim.nodes)
        ELSE /\ SameVelocities(sim.attracted,
                            AttractGraph(sim.repelled, KnownEdges(sim.repelled, sim.edges)))
             /\ \A k \in 1..Len(GraphLines(sim.nodes, sim.edges)) :
                    JoinsNodes(sim.nodes, GraphLines(sim.nodes, sim.edges)[k])

\* The edges of the list that are no self-loops, in list order
ProperEdges(edges) == SelectSeq(edges, LAMBDA edge : edge.from # edge.to)

\* The nodes without the connections that name the node itself
ProperConnections(ns) ==
    [k \in 1..Len(ns) |->
        [ns[k] EXCEPT !.connections = SelectSeq(@, LAMBDA id : id # ns[k].id)]]

\* The graph under simulation has a self-loop at one of its nodes.
HasSelfLoop ==
    \E e \in 1..Len(sim.edges) :
        /\ sim.edges[e].from = sim.edges[e].to
        /\ \E k \in 1..Len(sim.nodes) : sim.nodes[k].id = sim.edges[e].from

\* C23: a self-loop edge (from = to) changes no node's velocity or position
\* in any tick of either engine, the tick being that of the graph without
\* its self-loops, and it produces no NaN.
C23_SelfLoopWithoutEffect ==
    (sim.ticks > 0 /\ sim.before # <<>>) =>
        /\ SameVelocities(sim.attracted,
                          IF sim.engine = "page"
                          THEN AttractPage(ProperConnections(sim.repelled))
                          ELSE AttractGraph(sim.repelled, ProperEdges(sim.edges)))
        /\ (HasSelfLoop /\ EdgesJoinNodes) => AllFinite(sim.nodes)

\* C23 witness: NetworkPage has ticked a graph in which the adapter listed a
\* node among its own connections, and nodes of a graph with a self-loop
\* have moved.
C23_Witness ==
    /\ sim.engine = "page"
    /\ sim.ticks > 0
    /\ HasSelfLoop
    /\ \E k \in 1..Len(sim.nodes) :
           /\ sim.nodes[k].id \in ConnSet(sim.nodes[k])
           /\ sim.nodes[k].vx # 0

\* C27: a simulation tick changes only x, y, vx and vy of the nodes: the
\* list keeps its length and order, every node its id, its connections and
\* its other fields, and the edge list stays as it was.
C27_TickKeepsGraph ==
    [][sim'.ticks # sim.ticks =>
          /\ sim'.engine = sim.engine
          /\ sim'.edges = sim.edges
          /\ Len(sim'.nodes) = Len(sim.nodes)
          /\ \A k \in 1..Len(sim.nodes) :
                 /\ DOMAIN sim'.nodes[k] = DOMAIN sim.nodes[k]
                 /\ \A f \in DOMAIN sim.nodes[k] \ {"x", "y", "vx", "vy"} :
                        sim'.nodes[k][f] = sim.nodes[k][f]]_vars

\* C27 witness: ticks have moved the nodes of a graph of three linked nodes.
C27_Witness ==
    /\ sim.ticks > 1
    /\ Len(sim.nodes) = 3
    /\ sim.edges # <<>>
    /\ \A k \in 1..3 : sim.nodes[k].x # sim.before[k].x

\* C24: in NetworkPage, whenever a node is selected a node with its id is in
\* the current node list, however canvas clicks interleave with the arrival
\* of a payload that replaces the graph.
C24_SelectedNodeInList ==
    (host = "page" /\ selectedNode # <<>>) => selectedNode[1].id \in Ids(nodes.list)

\* The snapshot number of the graph the view shows
ShownSnap == IF host = "page" THEN nodes.snap ELSE nodesRef.snap

\* C25: when every request of the view has been answered with a graph and
\* the view has rendered, the graph shown is the one fetched by the latest
\* request, whatever order the responses arrived in.
C25_LatestRequestWins ==
    (stage = "live" /\ inflight = {} /\ queue = <<>>
        /\ issued > 0 /\ Len(answered) = issued)
    => answered[ShownSnap] = issued

\* C26: at most one animation loop is active per view: at most one frame
\* callback is pending, it belongs to the current instance of the loop
\* effect, and when the effect has re-run the frames of the earlier
\* instances are gone.
C26_SingleLoop ==
    /\ Cardinality(pending) <= 1
    /\ \A f \in pending : loop.active /\ f.gen = loop.gen /\ f.gen \notin cancelled

\* C26 witness: fetched data made the loop effect run again; the earlier
\* instance was cleaned up while its frame was pending and the new instance
\* has its frame pending.
C26_Witness ==
    /\ loop.active
    /\ loop.gen >= 2
    /\ (loop.gen - 1) \in cancelled
    /\ pending = {[id |-> loop.animId, gen |-> loop.gen]}

\* C28: in NetworkPage a fetched payload whose nodes are absent or empty
\* leaves the node list (the mock nodes) and totalReports as they were, and
\* a list that replaced the mock nodes comes from a payload with at least
\* one node, together with that payload's total.
C28_EmptyPayloadKeepsNodes ==
    host = "page" =>
        /\ NodesMissing => (nodes.snap = 0 /\ ApplyAll(nodes, queue).snap = 0)
        /\ nodes.snap = 0 => (nodes.list = MockNetworkNodes /\ totalReports = 0)
        /\ nodes.snap # 0 =>
              /\ ~NodesMissing
              /\ nodes.list = AdaptGraphToNodes(payload).nodes
              /\ totalReports = (IF payload.total_reports = Undefined THEN 0
                                 ELSE payload.total_reports)

\* C28 witness: the response with an empty nodes list has arrived and the
\* view has rendered since; it shows the mock nodes.
C28_Witness ==
    /\ host = "page"
    /\ stage = "live"
    /\ payload.nodesPresent
    /\ payload.nodes = <<>>
    /\ payload.total_reports = 5
    /\ issued = 1
    /\ inflight = {}
    /\ queue = <<>>
    /\ nodes.list = MockNetworkNodes
    /\ nodes.ticks > 0

\* C29: for a scan status subscription AnalysisPage schedules the navigation
\* to the verdict page exactly once when the stream ends, by a "complete"
\* event or by a stream error, and not before.
C29_NavigationScheduledOnce ==
    /\ analysis.scheduled <= 1
    /\ analysis.ended # "no" => analysis.scheduled = 1
    /\ analysis.ended = "no" => analysis.scheduled = 0

====
